---- MODULE Spec2Model ----
(***************************************************************************)
(* Model of adb_connect_map.py: the device registry (device_map.json), its *)
(* reconciliation against the bridge's device listing, the authorization   *)
(* check, the selection menu and the session launcher.                     *)
(*                                                                         *)
(* Text is modelled as a sequence of one-character strings, so that the    *)
(* code's substring tests, splits and the serial regular expression are    *)
(* computed and not assumed.  Python's None is the value None below.       *)
(***************************************************************************)
EXTENDS Integers, Sequences, FiniteSets, TLC

VARIABLES
    file,        \* device_map.json: NoFile, or the list under "devices"
    env,         \* what the bridge answers to queries (the live environment)
    pre,         \* history: the file as it was before the last reconciliation
    listed,      \* history: the environment the last reconciliation saw
    queried,     \* history: serials the last reconciliation queried the bridge about
    ran,         \* history: "never", "once", or "again" when the last reconciliation
                 \* followed another one
    pc,          \* position of main: start, menu, chosen, done
    devices,     \* main's list of selectable records
    entered,     \* history: the last valid number the user entered
    choice,      \* what display_device_menu returned
    rechecked,   \* history: serials whose authorization re-check returned true
    cmds,        \* history: connect/disconnect/usb/scrcpy commands issued by main
    authSerial,  \* argument of a direct is_device_authorized call
    authResult   \* its result ("none" before the call)

vars == <<file, env, pre, listed, queried, ran, pc, devices, entered, choice,
          rechecked, cmds, authSerial, authResult>>

-----------------------------------------------------------------------------
(* Bounds *)

\* longest device listing (lines after the header)
MaxLines == 2

-----------------------------------------------------------------------------
(* Text *)

None == <<"None">>
Empty == <<>>

\* Python truthiness of an Optional[str]
Truthy(x) == x # None /\ x # Empty

\* Python's `a or ""`
OrEmpty(x) == IF Truthy(x) THEN x ELSE Empty

\* Python's `t in s` on strings
Contains(s, t) ==
    \E i \in 1..(Len(s) - Len(t) + 1) : SubSeq(s, i, i + Len(t) - 1) = t

\* the least element of a non-empty set of numbers
Least(I) == CHOOSE i \in I : \A j \in I : i <= j

\* Python's s.split(c) for a one-character separator: the fields between the
\* occurrences of c
Split(s, c) ==
    LET seps == {i \in 1..Len(s) : s[i] = c}
        n == Cardinality(seps)
        pos(k) == CHOOSE i \in seps : Cardinality({j \in seps : j < i}) = k - 1
        first(k) == IF k = 1 THEN 1 ELSE pos(k - 1) + 1
        last(k) == IF k = n + 1 THEN Len(s) ELSE pos(k) - 1
    IN  [k \in 1..(n + 1) |-> SubSeq(s, first(k), last(k))]

Digits == {"0", "1", "2", "3", "4", "5", "6", "7", "8", "9"}

AllDigits(s) == \A i \in 1..Len(s) : s[i] \in Digits

Header == <<"L", "i", "s", "t", " ", "o", "f", " ", "d", "e", "v", "i", "c", "e", "s",
            " ", "a", "t", "t", "a", "c", "h", "e", "d">>

DEVICE == <<"d", "e", "v", "i", "c", "e">>
UNAUTHORIZED == <<"u", "n", "a", "u", "t", "h", "o", "r", "i", "z", "e", "d">>
OFFLINE == <<"o", "f", "f", "l", "i", "n", "e">>

Port5555 == <<":", "5", "5", "5", "5">>


\* Python's s.strip() (spaces and tabs are the only blanks that occur)
RECURSIVE Strip(_)
Strip(s) ==
    IF s = Empty THEN s
    ELSE IF Head(s) \in {" ", "\t"} THEN Strip(Tail(s))
    ELSE IF s[Len(s)] \in {" ", "\t"} THEN Strip(SubSeq(s, 1, Len(s) - 1))
    ELSE s

\* a slip of line 136: the pattern without its port part, r'^\d{1,3}(\.\d{1,3}){3}$'
re_match_no_port(serial) ==
    LET octets == Split(serial, ".")
    IN  /\ Len(octets) = 4
        /\ \A k \in 1..4 : Len(octets[k]) \in 1..3 /\ AllDigits(octets[k])

\* re.match(r'^\d{1,3}(\.\d{1,3}){3}:\d+$', serial), line 136
re_match(serial) ==
    LET parts == Split(serial, ":")
        octets == Split(parts[1], ".")
    IN  /\ Len(parts) = 2
        /\ Len(parts[2]) >= 1
        /\ AllDigits(parts[2])
        /\ Len(octets) = 4
        /\ \A k \in 1..4 : Len(octets[k]) \in 1..3 /\ AllDigits(octets[k])

-----------------------------------------------------------------------------
(* The bridge: what adb answers in a given environment *)

SerA == <<"A">>
SerAB == <<"A", "B">>
SerIP == <<"1", ".", "1", ".", "1", ".", "1", ":", "5", "5", "5", "5">>

\* serials of physical devices; a listing may also show the pseudo-serial SerIP
DeviceSerials == {SerA, SerAB}

Statuses == {DEVICE, UNAUTHORIZED, OFFLINE}

TxtPixel == <<"P", "7">>
TxtPanther == <<"p", "a">>
TxtSerialNo == <<"S", "N">>
TxtInet == <<"i", "n", "e", "t", " ", "1", "0", ".", "0", ".", "0", ".", "5", "/", "2", "4">>
TxtUsb == <<"u", "s", "b", ":", "1">>
TxtTcp == <<"t", "c", "p", ":", "5", "5", "5", "5">>

\* one device line of a listing: who is attached, and in which state
LineKinds ==
    [serial : DeviceSerials, status : Statuses] \cup {[serial |-> SerIP, status |-> DEVICE]}

RECURSIVE SeqsUpTo(_, _)
SeqsUpTo(S, n) ==
    IF n = 0 THEN {<<>>}
    ELSE LET shorter == SeqsUpTo(S, n - 1)
         IN  shorter \cup {Append(q, x) : q \in {r \in shorter : Len(r) = n - 1}, x \in S}

Listings == SeqsUpTo(LineKinds, MaxLines)

\* the answers to the model, device-class, hardware-serial and address queries
\* (None: the command failed): all succeed, or exactly one of them fails
Answers ==
    {a \in [model : {None, TxtPixel}, device_type : {None, TxtPanther},
            serialno : {None, TxtSerialNo}, ip : {None, TxtInet}] :
        Cardinality({k \in {"model", "device_type", "serialno", "ip"} : a[k] = None}) <= 1}

\* a live environment: the attached devices, each device's medium, and the answers
\* of the bridge; up is FALSE when the bridge itself cannot be run
Envs ==
    {[up |-> TRUE, lines |-> l, med |-> m, model |-> a.model,
      device_type |-> a.device_type, serialno |-> a.serialno, ip |-> a.ip] :
        l \in Listings, m \in [DeviceSerials -> {"usb", "wifi"}], a \in Answers}
    \cup
    {[up |-> FALSE, lines |-> <<>>, med |-> [s \in DeviceSerials |-> "usb"],
      model |-> None, device_type |-> None, serialno |-> None, ip |-> None]}

RECURSIVE JoinLines(_)
JoinLines(ls) ==
    IF ls = <<>> THEN Empty
    ELSE IF Len(ls) = 1 THEN ls[1]
    ELSE ls[1] \o <<"\n">> \o JoinLines(Tail(ls))

\* output of `adb devices`
FlatText(e) ==
    JoinLines(<<Header>> \o [i \in 1..Len(e.lines) |->
        e.lines[i].serial \o <<"\t">> \o e.lines[i].status])

\* output of `adb devices -l`
LongText(e) ==
    JoinLines(<<Header>> \o [i \in 1..Len(e.lines) |->
        e.lines[i].serial \o <<" ">> \o e.lines[i].status \o
        (IF e.lines[i].serial \in DeviceSerials
         THEN <<" ">> \o (IF e.med[e.lines[i].serial] = "wifi" THEN TxtTcp ELSE TxtUsb)
         ELSE Empty)])

\* adb_command, lines 9-27: the command's stripped output, or None when it fails
adb_command(e, op) ==
    IF ~e.up THEN None
    ELSE CASE op = "devices" -> FlatText(e)
           [] op = "devices -l" -> LongText(e)
           [] op = "getprop ro.product.model" -> e.model
           [] op = "getprop ro.product.device" -> e.device_type
           [] op = "getprop ro.serialno" -> e.serialno
           [] op = "ip addr show wlan0" -> e.ip

splitlines(text) == Split(text, "\n")

\* the first line of ls that contains serial, <<>> wrapped: <<line>> or <<>>
FirstLineWith(ls, serial) ==
    LET hits == {i \in 1..Len(ls) : Contains(ls[i], serial)}
    IN  IF hits = {} THEN <<>> ELSE <<ls[Least(hits)]>>

\* get_device_connection_type, lines 29-48
get_device_connection_type(serial, e) ==
    LET devices_list == adb_command(e, "devices -l")
        hit == IF Truthy(devices_list)
               THEN FirstLineWith(splitlines(devices_list), serial) ELSE <<>>
    IN  IF hit = <<>> THEN "offline"
        ELSE IF Contains(hit[1], Port5555) THEN "wifi" ELSE "usb"

\* ip_address.split()[1].split('/')[0], lines 62 and 161
ParseInet(text) == Split(Split(text, " ")[2], "/")[1]

\* get_device_ip, lines 50-63
get_device_ip(serial, e) ==
    LET ip_address == adb_command(e, "ip addr show wlan0")
    IN  IF Truthy(ip_address) THEN ParseInet(ip_address) ELSE None

NoInfo == [absent |-> TRUE]

\* get_device_info, lines 65-97
get_device_info(serial, e) ==
    LET model == adb_command(e, "getprop ro.product.model")
        device_type == adb_command(e, "getprop ro.product.device")
        serial_number == adb_command(e, "getprop ro.serialno")
        connection_type == get_device_connection_type(serial, e)
        ip_address == IF connection_type = "wifi" THEN get_device_ip(serial, e) ELSE None
    IN  IF Truthy(model) /\ Truthy(device_type) /\ Truthy(serial_number)
        THEN [model |-> model, device_type |-> device_type,
              serial_number |-> serial_number, ip_address |-> ip_address]
        ELSE NoInfo

\* get_device_status, lines 99-115
get_device_status(serial, e) ==
    LET devices_list == adb_command(e, "devices")
        hit == IF Truthy(devices_list)
               THEN FirstLineWith(splitlines(devices_list), serial) ELSE <<>>
    IN  IF hit = <<>> THEN OFFLINE ELSE Split(hit[1], "\t")[2]

RECURSIVE AuthScan(_, _)
\* the loop of is_device_authorized, lines 213-219
AuthScan(ls, serial) ==
    IF ls = <<>> THEN FALSE
    ELSE IF Contains(Head(ls), serial)
         THEN LET status == Split(Head(ls), "\t")[2]
              IN  IF status = DEVICE THEN TRUE
                  ELSE IF status = UNAUTHORIZED THEN FALSE
                  ELSE AuthScan(Tail(ls), serial)
         ELSE AuthScan(Tail(ls), serial)

\* is_device_authorized, lines 198-220
is_device_authorized(serial, e) ==
    LET devices_list == adb_command(e, "devices")
    IN  IF Truthy(devices_list) THEN AuthScan(splitlines(devices_list), serial) ELSE FALSE

-----------------------------------------------------------------------------
(* The registry and its reconciliation *)

NoFile == [exists |-> FALSE, devices |-> <<>>]

\* json.load of device_map.json, or {"devices": []} when it is absent, lines 124-128
LoadDevices(f) == IF f.exists THEN f.devices ELSE <<>>

\* `serial in device_index`, lines 130, 144, 186
InIndex(devs, serial) == \E i \in 1..Len(devs) : devs[i].serial = serial

\* device_index[serial]: the last position holding the serial
IndexOf(devs, serial) ==
    CHOOSE i \in 1..Len(devs) :
        devs[i].serial = serial /\ \A j \in (i + 1)..Len(devs) : devs[j].serial # serial

\* a slip of lines 148-150: the fetched model is stored under the wrong key
FillModelIntoName(device, e) ==
    IF ~Truthy(device.model)
    THEN [device EXCEPT !.name = OrEmpty(adb_command(e, "getprop ro.product.model"))]
    ELSE device

\* lines 148-150: fetch the model when none is stored
FillModel(device, e) ==
    IF ~Truthy(device.model)
    THEN [device EXCEPT !.model = OrEmpty(adb_command(e, "getprop ro.product.model"))]
    ELSE device

\* lines 152-154: fetch the device class when none is stored
FillDeviceType(device, e) ==
    IF ~Truthy(device.device_type)
    THEN [device EXCEPT
            !.device_type = OrEmpty(adb_command(e, "getprop ro.product.device"))]
    ELSE device

\* lines 156-166: the address, by the device's current medium
FillAddress(device, serial, e) ==
    LET connection_type == get_device_connection_type(serial, e)
        ip_address == OrEmpty(adb_command(e, "ip addr show wlan0"))
        d == IF connection_type = "wifi" /\ ~Truthy(device.ip_address)
                                         /\ Truthy(ip_address)
             THEN [device EXCEPT !.ip_address = ParseInet(ip_address)]
             ELSE device
    IN  IF connection_type = "usb" /\ ~Truthy(d.ip_address)
        THEN [d EXCEPT !.ip_address = Empty]
        ELSE d

\* lines 168-170
SetStatus(device, status) ==
    IF device.status # status THEN [device EXCEPT !.status = status] ELSE device

\* the update of a known device, lines 145-173
UpdateKnown(device, serial, status, e) ==
    SetStatus(FillAddress(FillDeviceType(FillModel(device, e), e), serial, e), status)

\* the record built for a new device, lines 177-184
NewDevice(serial, device_info, status) ==
    [name |-> Empty, serial |-> serial, model |-> device_info.model,
     device_type |-> device_info.device_type, ip_address |-> device_info.ip_address,
     status |-> status]

\* the serial a listing line yields, Empty when it is filtered, lines 135-137
LineSerial(line) ==
    LET serial == Split(line, "\t")[1]
    IN  IF re_match(serial) THEN Empty ELSE serial

\* one pass of the loop body, lines 134-191; st is [devs, queried]
ProcessLine(st, line, e) ==
    IF Strip(line) = Empty \/ Strip(line) = Header THEN st
    ELSE LET serial == LineSerial(line)
         IN  IF serial = Empty THEN st
             ELSE LET status == get_device_status(serial, e)
                      q == st.queried \cup {serial}
                  IN  IF status = DEVICE
                      THEN IF InIndex(st.devs, serial)
                           THEN [devs |-> [st.devs EXCEPT ![IndexOf(st.devs, serial)] =
                                             UpdateKnown(@, serial, status, e)],
                                 queried |-> q]
                           ELSE LET device_info == get_device_info(serial, e)
                                IN  IF device_info # NoInfo
                                    THEN [devs |-> Append(st.devs,
                                                     NewDevice(serial, device_info, status)),
                                          queried |-> q]
                                    ELSE [devs |-> st.devs, queried |-> q]
                      ELSE [devs |-> st.devs, queried |-> q]

RECURSIVE ProcessLines(_, _, _)
ProcessLines(st, ls, e) ==
    IF ls = <<>> THEN st ELSE ProcessLines(ProcessLine(st, Head(ls), e), Tail(ls), e)

\* update_device_map, lines 117-194: the file written and the serials queried
update_device_map(f, e) ==
    LET devices_list == adb_command(e, "devices")
        st0 == [devs |-> LoadDevices(f), queried |-> {}]
        st == IF Truthy(devices_list)
              THEN ProcessLines(st0, splitlines(devices_list), e) ELSE st0
    IN  [file |-> [exists |-> TRUE, devices |-> st.devs], queried |-> st.queried]

-----------------------------------------------------------------------------
(* The selection menu and the session launcher *)

\* devices[choice - 1] with Python's indexing: choice 0 selects the last one, line 253
MenuSelected(devs, c) == devs[IF c = 0 THEN Len(devs) ELSE c]

\* `0 <= choice <= len(devices)` on an integer input, lines 250-251
MenuValid(devs, input) == input.int /\ 0 <= input.val /\ input.val <= Len(devs)

\* a slip of lines 257-264: the choice is returned without the re-check
MenuResultUnchecked(devs, c, e) == c

\* what display_device_menu returns for a valid input, lines 253-264
MenuResult(devs, c, e) ==
    IF ~is_device_authorized(MenuSelected(devs, c).serial, e) THEN 0 ELSE c

\* the records main lists, line 287
Selectable(f) ==
    LET IsLive(device) == device.status = DEVICE
    IN  SelectSeq(LoadDevices(f), IsLive)

\* a slip of line 305: the selected device is not left out
DisconnectEveryone(devs, c) == devs

\* the devices main disconnects, lines 304-308
DisconnectTargets(devs, c) ==
    LET Other(device) == device # devs[c]
    IN  SelectSeq(devs, Other)

\* the commands main issues for a selection, lines 301-325
LaunchCommands(devs, c, e) ==
    LET selected_device == devs[c]
        others == DisconnectTargets(devs, c)
        serial == selected_device.serial
        connection_type == get_device_connection_type(serial, e)
    IN  [i \in 1..Len(others) |-> [op |-> "disconnect", arg |-> others[i].serial]]
        \o (IF connection_type = "wifi"
            THEN <<[op |-> "connect", arg |-> selected_device.ip_address]>>
            ELSE IF connection_type = "usb"
            THEN <<[op |-> "usb", arg |-> serial]>>
            ELSE <<>>)
        \o <<[op |-> "scrcpy", arg |-> serial]>>

-----------------------------------------------------------------------------
(* Starting states *)

TxtMyPhone == <<"M", "y">>
TxtTab == <<"T", "b">>
TxtOldIp == <<"1", "0", ".", "0", ".", "0", ".", "9">>

\* a named record last seen offline, with nothing else known
RecA1 ==
    [name |-> TxtMyPhone, serial |-> SerA, model |-> Empty, device_type |-> Empty,
     ip_address |-> Empty, status |-> OFFLINE]

\* an unnamed record stored while the device was wireless
RecA2 ==
    [name |-> Empty, serial |-> SerA, model |-> TxtPixel, device_type |-> TxtPanther,
     ip_address |-> TxtOldIp, status |-> DEVICE]

\* a named, complete record of the other device
RecB1 ==
    [name |-> TxtTab, serial |-> SerAB, model |-> TxtPixel, device_type |-> TxtPanther,
     ip_address |-> Empty, status |-> DEVICE]

\* registries with pairwise distinct serials, and the absent file
Files0 ==
    {NoFile} \cup
    {[exists |-> TRUE, devices |-> d] :
        d \in {<<>>, <<RecA1>>, <<RecA2>>, <<RecA1, RecB1>>, <<RecB1, RecA2>>}}

\* environments in which every property and address query succeeds
QuietEnvs ==
    {e \in Envs : e.up => /\ e.model # None /\ e.device_type # None
                          /\ e.serialno # None /\ e.ip # None}

NoInput == [int |-> FALSE, val |-> 0]

Idle ==
    /\ pre = file
    /\ listed = env
    /\ queried = {}
    /\ ran = "never"
    /\ devices = <<>>
    /\ entered = -1
    /\ choice = -1
    /\ rechecked = {}
    /\ cmds = <<>>
    /\ authSerial = Empty
    /\ authResult = "none"

-----------------------------------------------------------------------------
(* Reconciliation alone: update_device_map run repeatedly in one environment *)

InitReconcile ==
    /\ file \in Files0
    /\ env \in Envs
    /\ pc = "reconcile"
    /\ Idle

\* update_device_map, lines 117-194
Reconcile ==
    /\ pc = "reconcile"
    /\ LET r == update_device_map(file, env)
       IN  /\ file' = r.file
           /\ queried' = r.queried
    /\ pre' = file
    /\ listed' = env
    /\ ran' = IF ran = "never" THEN "once" ELSE "again"
    /\ UNCHANGED <<env, pc, devices, entered, choice, rechecked, cmds, authSerial,
                   authResult>>

NextReconcile == Reconcile

SpecReconcile == InitReconcile /\ [][NextReconcile]_vars

-----------------------------------------------------------------------------
(* One invocation of main *)

InitMain ==
    /\ file \in Files0
    /\ env \in QuietEnvs
    /\ pc = "start"
    /\ Idle

\* main, lines 278-291: reconcile, reload, list the records with status device
MainReconcile ==
    /\ pc = "start"
    /\ LET r == update_device_map(file, env)
       IN  /\ file' = r.file
           /\ queried' = r.queried
           /\ devices' = Selectable(r.file)
           /\ pc' = IF Selectable(r.file) = <<>> THEN "done" ELSE "menu"
    /\ pre' = file
    /\ listed' = env
    /\ ran' = "once"
    /\ UNCHANGED <<env, entered, choice, rechecked, cmds, authSerial, authResult>>

\* the user authorizes, revokes or unplugs a device while the menu waits for input
EnvChange ==
    /\ pc = "menu"
    /\ \E i \in 1..Len(env.lines), st \in Statuses :
          /\ env.lines[i].serial \in DeviceSerials
          /\ env.lines[i].status # st
          /\ env' = [env EXCEPT !.lines[i].status = st]
    /\ UNCHANGED <<file, pre, listed, queried, ran, pc, devices, entered, choice,
                   rechecked, cmds, authSerial, authResult>>

\* display_device_menu, lines 244-273
DisplayDeviceMenu ==
    /\ pc = "menu"
    /\ \E input \in [int : {TRUE}, val : -1..(Len(devices) + 1)] \cup {NoInput} :
          IF MenuValid(devices, input)
          THEN /\ entered' = input.val
               /\ choice' = MenuResult(devices, input.val, env)
               /\ rechecked' =
                    IF is_device_authorized(MenuSelected(devices, input.val).serial, env)
                    THEN rechecked \cup {MenuSelected(devices, input.val).serial}
                    ELSE rechecked
               /\ pc' = "chosen"
          ELSE \* invalid input: the menu is shown again
               UNCHANGED <<entered, choice, rechecked, pc>>
    /\ UNCHANGED <<file, env, pre, listed, queried, ran, devices, cmds,
                   authSerial, authResult>>

\* main, lines 296-298
MainExit ==
    /\ pc = "chosen"
    /\ choice = 0
    /\ pc' = "done"
    /\ UNCHANGED <<file, env, pre, listed, queried, ran, devices, entered, choice, rechecked,
                   cmds, authSerial, authResult>>

\* main, lines 300-334
MainLaunch ==
    /\ pc = "chosen"
    /\ choice # 0
    /\ cmds' = cmds \o LaunchCommands(devices, choice, env)
    /\ pc' = "done"
    /\ UNCHANGED <<file, env, pre, listed, queried, ran, devices, entered, choice, rechecked,
                   authSerial, authResult>>

NextMain ==
    \/ MainReconcile
    \/ EnvChange
    \/ DisplayDeviceMenu
    \/ MainExit
    \/ MainLaunch

SpecMain == InitMain /\ [][NextMain]_vars

-----------------------------------------------------------------------------
(* The authorization check on its own *)

InitAuth ==
    /\ file = NoFile
    /\ env \in QuietEnvs
    /\ pc = "auth"
    /\ pre = file
    /\ listed = env
    /\ queried = {}
    /\ ran = "never"
    /\ devices = <<>>
    /\ entered = -1
    /\ choice = -1
    /\ rechecked = {}
    /\ cmds = <<>>
    /\ authSerial \in DeviceSerials
    /\ authResult = "none"

\* is_device_authorized, lines 198-220
CheckAuthorized ==
    /\ pc = "auth"
    /\ authResult = "none"
    /\ authResult' = IF is_device_authorized(authSerial, env) THEN "true" ELSE "false"
    /\ UNCHANGED <<file, env, pre, listed, queried, ran, pc, devices, entered, choice,
                   rechecked, cmds, authSerial>>

NextAuth == CheckAuthorized

SpecAuth == InitAuth /\ [][NextAuth]_vars

-----------------------------------------------------------------------------
(* What is really attached, read off the environment and not off the bridge's text *)

\* the listing lines that are the serial's own
OwnLines(e, serial) == {i \in 1..Len(e.lines) : e.lines[i].serial = serial}

\* the serial is listed, and every line of its own shows status device
LiveDevice(e, serial) ==
    /\ e.up
    /\ OwnLines(e, serial) # {}
    /\ \A i \in OwnLines(e, serial) : e.lines[i].status = DEVICE

\* some line of the serial's own shows status device
SomeLineDevice(e, serial) ==
    e.up /\ \E i \in OwnLines(e, serial) : e.lines[i].status = DEVICE

\* no listed serial is part of another listed serial
PlainListing(e) ==
    \A i, j \in 1..Len(e.lines) :
        Contains(e.lines[j].serial, e.lines[i].serial)
            => e.lines[j].serial = e.lines[i].serial

\* the pool's serials of IPv4:port shape
PseudoSerials == {SerIP}

SerialsOf(devs) == {devs[i].serial : i \in 1..Len(devs)}

Distinct(devs) == \A i, j \in 1..Len(devs) : i # j => devs[i].serial # devs[j].serial

PropsOk(e) == Truthy(e.model) /\ Truthy(e.device_type) /\ Truthy(e.serialno)

CmdArgs(kind) == {cmds[i].arg : i \in {k \in 1..Len(cmds) : cmds[k].op = kind}}

-----------------------------------------------------------------------------
(* Claims *)

\* C1: a reconciliation leaves the name of every record that had a non-empty name
\* as it was, whatever the listing and the answers of the bridge.
NamePreserved ==
    ran # "never" =>
        /\ Len(file.devices) >= Len(pre.devices)
        /\ \A i \in 1..Len(pre.devices) :
              pre.devices[i].name # Empty => file.devices[i].name = pre.devices[i].name

\* C1 witness: a named record was rewritten by the run and kept its name.
NamedRecordUpdated ==
    /\ ran # "never"
    /\ \E i \in 1..Len(pre.devices) :
          /\ pre.devices[i].name # Empty
          /\ file.devices[i] # pre.devices[i]
          /\ file.devices[i].name = pre.devices[i].name

\* C2: a second reconciliation in the same environment leaves the registry exactly
\* as the first one left it (stated for listings in which no serial is part of
\* another, so that the lookup by substring plays no part).
Idempotent == (ran = "again" /\ PlainListing(env)) => file = pre

\* C3: after a reconciliation, every record whose device is attached with status
\* device over a wired medium has no ip_address (the empty string; null is let
\* pass here, and the listings are those in which no serial is part of another).
WiredHasNoAddress ==
    (ran # "never" /\ PlainListing(env)) =>
        \A i \in 1..Len(file.devices) :
            LET serial == file.devices[i].serial
            IN  (LiveDevice(env, serial) /\ env.med[serial] = "usb")
                    => ~Truthy(file.devices[i].ip_address)

\* C4: every record the menu offers has status device in the listing that this
\* invocation's reconciliation saw (stated for listings in which no serial is part
\* of another).
MenuOffersOnlyLive ==
    (pc = "menu" /\ PlainListing(listed)) => \A i \in 1..Len(devices) : SomeLineDevice(listed, devices[i].serial)

\* C5 as stated: a disconnect is issued only for a device that is not the selected
\* one and whose medium is wireless.
DisconnectOnlyWireless ==
    (pc = "done" /\ choice > 0) =>
        \A serial \in CmdArgs("disconnect") :
            /\ serial # devices[choice].serial
            /\ LiveDevice(env, serial) /\ env.med[serial] = "wifi"

\* C5 amended: after a valid non-zero selection a disconnect is issued for every
\* listed device other than the selected one, wired or wireless, and never for the
\* selected one; without such a selection no disconnect is issued.
DisconnectAllOthers ==
    IF pc = "done" /\ choice > 0
    THEN CmdArgs("disconnect") =
            {devices[i].serial : i \in (1..Len(devices)) \ {choice}}
    ELSE CmdArgs("disconnect") = {}

\* C5 witness: a session was launched while another listed device was attached
\* by wire, and that device was disconnected.
WiredOtherDisconnected ==
    /\ pc = "done"
    /\ choice > 0
    /\ \E i \in (1..Len(devices)) \ {choice} :
          /\ LiveDevice(env, devices[i].serial)
          /\ env.med[devices[i].serial] = "usb"
          /\ devices[i].serial \in CmdArgs("disconnect")

\* C6: a reconciliation never appends a serial of IPv4:port shape to the registry
\* and never queries the bridge about one.
SerialFiltered ==
    ran # "never" =>
        /\ SerialsOf(file.devices) \cap PseudoSerials = {}
        /\ queried \cap PseudoSerials = {}

\* C6 witness: a serial of IPv4:port shape was listed with status device while every
\* property query succeeds, and a reconciliation ran.
PseudoSerialListed ==
    /\ ran # "never"
    /\ PropsOk(env)
    /\ \E i \in 1..Len(env.lines) :
          env.lines[i].serial \in PseudoSerials /\ env.lines[i].status = DEVICE

\* C7: a device serial that is not in the registry and is listed with status device
\* gets exactly one record, with empty name and status device, when the three
\* property queries succeed and none when one fails; distinct serials stay distinct.
NewDeviceCreated ==
    ran # "never" =>
        /\ \A serial \in DeviceSerials :
              (serial \notin SerialsOf(pre.devices) /\ LiveDevice(env, serial)) =>
                  LET own == {i \in 1..Len(file.devices) :
                                 file.devices[i].serial = serial}
                  IN  IF PropsOk(env)
                      THEN /\ Cardinality(own) = 1
                           /\ \A i \in own : /\ file.devices[i].name = Empty
                                             /\ file.devices[i].status = DEVICE
                      ELSE own = {}
        /\ Distinct(pre.devices) => Distinct(file.devices)

\* C8: when the menu returns 0 main issues no command and stops; the mirroring
\* process is launched at most once, and only for a device whose authorization
\* re-check returned true.
ExitWithoutSideEffects ==
    /\ (pc \in {"start", "menu"} \/ choice = 0) => cmds = <<>>
    /\ (pc = "chosen" /\ choice = 0) => (ENABLED MainExit /\ ~ENABLED MainLaunch)
    /\ pc = "done" => ~ENABLED NextMain
    /\ Cardinality({k \in 1..Len(cmds) : cmds[k].op = "scrcpy"}) <= 1
    /\ CmdArgs("scrcpy") \subseteq rechecked

\* C8 witness: the user chose a device, its re-check failed, and main stopped
\* without a command.
RecheckFailedExit ==
    /\ pc = "done"
    /\ entered > 0
    /\ choice = 0
    /\ cmds = <<>>

\* C9: a reconciliation removes no record, keeps the records' order, and leaves
\* every field of a record alone when its device is not listed or is listed with a
\* status other than device.
NoDestructiveReconcile ==
    ran # "never" =>
        /\ Len(file.devices) >= Len(pre.devices)
        /\ \A i \in 1..Len(pre.devices) :
              /\ file.devices[i].serial = pre.devices[i].serial
              /\ ~SomeLineDevice(env, pre.devices[i].serial)
                    => file.devices[i] = pre.devices[i]

\* C10: is_device_authorized(S) is true exactly when S's own listing line shows
\* status device, whatever lines other serials have.
AuthorizedExactly ==
    /\ authResult = "true" => SomeLineDevice(env, authSerial)
    /\ authResult = "false" => ~LiveDevice(env, authSerial)

====
